---- MODULE Spec2Model ----
(***************************************************************************)
(* Model of the cars example: the Twisted client of src/cars/client.py     *)
(* (TrafficClient, TrafficProtocol, TrafficClientFactory) talking to the   *)
(* server of src/cars/server.py (TrafficProtocol.connectionMade and the    *)
(* WatchCars thread).                                                      *)
(*                                                                         *)
(* A Python string is a sequence of one-character strings, so that         *)
(* '.'.join(...) and str.split('.') are computed character by character.   *)
(***************************************************************************)
EXTENDS Integers, Sequences, FiniteSets, Bags, TLC

\* ------------------------------------------------------------------ bounds

\* Largest number of entries of TrafficClient.addresses explored.
MaxAddr == 2

\* Largest number of appends the WatchCars thread performs.
MaxCars == 1

\* ------------------------------------------------------------ input values

\* The field values WatchCars.run may format into a record.  The last value
\* of Times holds the record separator, which the code never escapes.
Times == { <<"a">>, <<"b">>, <<"a", ".">> }
Brands == { <<"p">> }
Colors == { <<"r">> }

\* Field values free of both delimiters.
CleanField(f) == \A k \in 1..Len(f) : f[k] # "." /\ f[k] # ":"

\* The one address the client is configured with (possibly several times).
Address == <<"localhost", 8000>>

\* ---------------------------------------------------------------- strings

\* WatchCars.run: '%s:%s:%s' % (t, brand, color)
Format(t, brand, color) == t \o <<":">> \o brand \o <<":">> \o color

\* A join that ends every record with the separator.
RECURSIVE Join_trailing(_)
Join_trailing(list) ==
  IF list = <<>> THEN <<>>
  ELSE list[1] \o <<".">> \o Join_trailing(Tail(list))

\* str.join with '.' as the separator, as in the server's connectionMade.
RECURSIVE Join(_)
Join(list) ==
  IF list = <<>> THEN <<>>
  ELSE IF Len(list) = 1 THEN list[1]
  ELSE list[1] \o <<".">> \o Join(Tail(list))

\* Index of the first '.' of s, or 0.
FirstDot(s) ==
  IF \E k \in 1..Len(s) : s[k] = "."
  THEN CHOOSE k \in 1..Len(s) : s[k] = "." /\ \A j \in 1..(k-1) : s[j] # "."
  ELSE 0

\* str.split('.'): always at least one chunk, '' for the empty string.
RECURSIVE Split(_)
Split(s) ==
  IF FirstDot(s) = 0 THEN <<s>>
  ELSE <<SubSeq(s, 1, FirstDot(s) - 1)>> \o Split(SubSeq(s, FirstDot(s) + 1, Len(s)))

\* ------------------------------------------------------------------- state

VARIABLES
  addresses,        \* TrafficClient.addresses
  pc,               \* position of the client's main(): "main", "updated", "running"
  reactor,          \* the client's reactor: "idle", "running", "stopped"
  cars,             \* TrafficClient.cars
  addr_count,       \* TrafficClient.addr_count
  callbacks,        \* the callback chain of TrafficClient.deferred
  called,           \* whether TrafficClient.deferred has been fired
  factory_deferred, \* TRUE while TrafficClientFactory.deferred is not None
  conn,             \* per connection attempt: "idle", "connecting", "established", "closed", "failed"
  data,             \* per connection: TrafficProtocol.data (client side)
  wire,             \* per connection: bytes written by the server, not yet received
  reason,           \* per connection: the reason passed to connectionLost
  proto_cars,       \* per connection: TrafficProtocol.cars (client side), <<>> until set
  sent_cars,        \* per connection: factory.cars as read by the server's connectionMade
  srv_cars,         \* TrafficServer.cars, shared with TrafficFactory and WatchCars
  stops,            \* number of calls of reactor.stop()
  raised,           \* number of exceptions raised inside the deferred's callbacks
  delivered,        \* per connection: number of times its outcome fired the deferred
  outcome           \* per connection: "none", "callback" or "errback"

vars == << addresses, pc, reactor, cars, addr_count, callbacks, called,
           factory_deferred, conn, data, wire, reason, proto_cars, sent_cars,
           srv_cars, stops, raised, delivered, outcome >>

Sessions == 1..Len(addresses)

\* --------------------------------------------------- the deferred's results

\* What travels down the callback chain: a list of cars, None, or a Failure.
ListResult(list) == [tag |-> "list", v |-> list, err |-> ""]
NoneResult == [tag |-> "None", v |-> <<>>, err |-> ""]
FailureResult(e) == [tag |-> "Failure", v |-> <<>>, err |-> e]

\* The part of the client a callback can change, threaded through the chain.
ClientState(result) ==
  [cars |-> cars, addr_count |-> addr_count, reactor |-> reactor,
   stops |-> stops, raised |-> raised, result |-> result]

\* TrafficClient.got_cars: self.cars.extend(cars); extend(None) raises
\* TypeError before changing the list; the callback returns None.
got_cars(st, arg) ==
  IF arg.tag = "list"
  THEN [st EXCEPT !.cars = @ \o arg.v, !.result = NoneResult]
  ELSE [st EXCEPT !.raised = @ + 1, !.result = FailureResult("TypeError")]

\* get_cars_failed putting the error into the car list.
get_cars_failed_recorded(st, err) ==
  [st EXCEPT !.cars = Append(@, <<"e">>), !.result = NoneResult]

\* TrafficClient.get_cars_failed: logs and returns None.
get_cars_failed(st, err) == [st EXCEPT !.result = NoneResult]

\* reactor.stop(): raises ReactorNotRunning unless the reactor is running.
reactor_stop(st) ==
  IF st.reactor = "running"
  THEN [st EXCEPT !.reactor = "stopped", !.stops = @ + 1, !.result = NoneResult]
  ELSE [st EXCEPT !.stops = @ + 1, !.raised = @ + 1,
                  !.result = FailureResult("ReactorNotRunning")]

\* cars_done without the comparison: every call stops the reactor.
cars_done_always(st, arg) ==
  reactor_stop([st EXCEPT !.addr_count = @ + 1, !.result = NoneResult])

\* cars_done with the comparison made before the increment.
cars_done_late(st, arg) ==
  LET counted == [st EXCEPT !.addr_count = @ + 1, !.result = NoneResult]
  IN  IF st.addr_count = Len(addresses) THEN reactor_stop(counted) ELSE counted

\* TrafficClient.cars_done
cars_done(st, arg) ==
  LET counted == [st EXCEPT !.addr_count = @ + 1, !.result = NoneResult]
  IN  IF counted.addr_count = Len(addresses) THEN reactor_stop(counted) ELSE counted

\* One (callback, errback) pair of the chain, by the names of the methods.
CallbackPair(cb, eb) == [cb |-> cb, eb |-> eb]

Invoke(f, st) ==
  CASE f = "got_cars"        -> got_cars(st, st.result)
    [] f = "get_cars_failed" -> get_cars_failed(st, st.result)
    [] f = "cars_done"       -> cars_done(st, st.result)

\* Deferred firing: each pair in order, the errback when the current result
\* is a Failure and the callback otherwise; the return value (or the raised
\* exception, as a Failure) is the next pair's input.
RECURSIVE RunCallbacks(_, _)
RunCallbacks(cbs, st) ==
  IF cbs = <<>> THEN st
  ELSE RunCallbacks(Tail(cbs),
         Invoke(IF st.result.tag = "Failure" THEN Head(cbs).eb ELSE Head(cbs).cb, st))

\* update_cars with one more addBoth(cars_done) after the loop.
RECURSIVE AddressCallbacks_extra(_)
AddressCallbacks_extra(n) ==
  IF n = 0 THEN << CallbackPair("cars_done", "cars_done") >>
  ELSE << CallbackPair("got_cars", "get_cars_failed"),
          CallbackPair("cars_done", "cars_done") >> \o AddressCallbacks_extra(n - 1)

\* update_cars, per address: addCallbacks(got_cars, get_cars_failed) and then
\* addBoth(cars_done), on the one deferred of the client.
RECURSIVE AddressCallbacks(_)
AddressCallbacks(n) ==
  IF n = 0 THEN <<>>
  ELSE AddressCallbacks(n - 1)
         \o << CallbackPair("got_cars", "get_cars_failed"),
               CallbackPair("cars_done", "cars_done") >>

\* d.callback(result) / d.errback(reason) on the deferred taken from the
\* factory, for connection i; the factory's reference becomes None.
Fire(i, result, kind) ==
  LET st == RunCallbacks(callbacks, ClientState(result))
  IN  /\ cars' = st.cars
      /\ addr_count' = st.addr_count
      /\ reactor' = st.reactor
      /\ stops' = st.stops
      /\ raised' = st.raised
      /\ callbacks' = <<>>
      /\ called' = TRUE
      /\ factory_deferred' = FALSE
      /\ delivered' = [delivered EXCEPT ![i] = @ + 1]
      /\ outcome' = [outcome EXCEPT ![i] = kind]

Inert ==
  UNCHANGED << cars, addr_count, reactor, stops, raised, callbacks, called,
               factory_deferred, delivered, outcome >>

\* get_cars_finished without the test of self.deferred.
get_cars_finished_unguarded(i, list) == Fire(i, ListResult(list), "callback")

\* TrafficClientFactory.get_cars_finished
get_cars_finished(i, list) ==
  IF factory_deferred THEN Fire(i, ListResult(list), "callback") ELSE Inert

\* TrafficProtocol.carsReceived
carsReceived(i, list) == get_cars_finished(i, list)

\* ------------------------------------------------------------------ actions

Init ==
  /\ addresses \in { [k \in 1..n |-> Address] : n \in 0..MaxAddr }
  /\ pc = "main"
  /\ reactor = "idle"
  /\ cars = <<>>
  /\ addr_count = 0
  /\ callbacks = <<>>
  /\ called = FALSE
  /\ factory_deferred = TRUE
  /\ conn = [i \in Sessions |-> "idle"]
  /\ data = [i \in Sessions |-> <<>>]
  /\ wire = [i \in Sessions |-> <<>>]
  /\ reason = [i \in Sessions |-> "none"]
  /\ proto_cars = [i \in Sessions |-> <<>>]
  /\ sent_cars = [i \in Sessions |-> <<>>]
  /\ srv_cars = <<>>
  /\ stops = 0
  /\ raised = 0
  /\ delivered = [i \in Sessions |-> 0]
  /\ outcome = [i \in Sessions |-> "none"]

\* TrafficClient.get_cars: reactor.connectTCP(host, port, self.factory)
get_cars(c, i) == [c EXCEPT ![i] = "connecting"]

\* update_cars connecting once per distinct address.
ConnectAll_distinct(c, n) ==
  [i \in DOMAIN c |->
     IF i <= n /\ \A j \in 1..(i - 1) : addresses[j] # addresses[i]
     THEN "connecting" ELSE c[i]]

\* TrafficClient.update_cars, the loop's get_cars calls for addresses 1..n
RECURSIVE ConnectAll(_, _)
ConnectAll(c, n) == IF n = 0 THEN c ELSE get_cars(ConnectAll(c, n - 1), n)

\* TrafficClient.update_cars, called by main() before reactor.run()
update_cars ==
  /\ pc = "main"
  /\ pc' = "updated"
  /\ conn' = ConnectAll(conn, Len(addresses))
  /\ callbacks' = callbacks \o AddressCallbacks(Len(addresses))
  /\ UNCHANGED << addresses, reactor, cars, addr_count, called, factory_deferred,
                  data, wire, reason, proto_cars, sent_cars, srv_cars, stops,
                  raised, delivered, outcome >>

\* main(): reactor.run()
reactor_run ==
  /\ pc = "updated"
  /\ pc' = "running"
  /\ reactor' = "running"
  /\ UNCHANGED << addresses, cars, addr_count, callbacks, called, factory_deferred,
                  conn, data, wire, reason, proto_cars, sent_cars, srv_cars,
                  stops, raised, delivered, outcome >>

\* Server side, TrafficProtocol.connectionMade: the connection attempt i is
\* accepted, the server writes the joined list and calls loseConnection.
connectionMade(i) ==
  /\ reactor # "idle"
  /\ conn[i] = "connecting"
  /\ conn' = [conn EXCEPT ![i] = "established"]
  /\ sent_cars' = [sent_cars EXCEPT ![i] = srv_cars]
  /\ wire' = [wire EXCEPT ![i] = Join(srv_cars)]
  /\ UNCHANGED << addresses, pc, reactor, cars, addr_count, callbacks, called,
                  factory_deferred, data, reason, proto_cars, srv_cars, stops,
                  raised, delivered, outcome >>

\* self.data += data with the operands exchanged.
Received_prepend(buffer, chunk) == chunk \o buffer

\* TrafficProtocol.dataReceived, self.data += data
Received(buffer, chunk) == buffer \o chunk

\* TrafficProtocol.dataReceived: the next k bytes in flight arrive, for any
\* cut of the payload into chunks.
dataReceived(i, k) ==
  /\ reactor # "idle"
  /\ conn[i] = "established"
  /\ k \in 1..Len(wire[i])
  /\ data' = [data EXCEPT ![i] = Received(@, SubSeq(wire[i], 1, k))]
  /\ wire' = [wire EXCEPT ![i] = SubSeq(@, k + 1, Len(@))]
  /\ UNCHANGED << addresses, pc, reactor, cars, addr_count, callbacks, called,
                  factory_deferred, conn, reason, proto_cars, sent_cars, srv_cars,
                  stops, raised, delivered, outcome >>

\* The reasons a transport gives connectionLost: the peer's orderly close,
\* once everything written has arrived, or the loss of the connection.
Reasons == { "ConnectionDone", "ConnectionLost" }

\* TrafficProtocol.connectionLost (client side): the reason is only logged.
connectionLost(i, r) ==
  /\ reactor # "idle"
  /\ conn[i] = "established"
  /\ r = "ConnectionDone" => wire[i] = <<>>
  /\ conn' = [conn EXCEPT ![i] = "closed"]
  /\ reason' = [reason EXCEPT ![i] = r]
  /\ wire' = [wire EXCEPT ![i] = <<>>]
  /\ proto_cars' = [proto_cars EXCEPT ![i] = Split(data[i])]
  /\ carsReceived(i, Split(data[i]))
  /\ UNCHANGED << addresses, pc, data, sent_cars, srv_cars >>

\* TrafficClientFactory.clientConnectionFailed
clientConnectionFailed(i) ==
  /\ reactor # "idle"
  /\ conn[i] = "connecting"
  /\ conn' = [conn EXCEPT ![i] = "failed"]
  /\ IF factory_deferred
     THEN Fire(i, FailureResult("ConnectError"), "errback")
     ELSE Inert
  /\ UNCHANGED << addresses, pc, data, wire, reason, proto_cars, sent_cars, srv_cars >>

\* WatchCars.run: one iteration of the thread's loop.
WatchCars_run ==
  /\ Len(srv_cars) < MaxCars
  /\ \E t \in Times, brand \in Brands, color \in Colors :
       srv_cars' = Append(srv_cars, Format(t, brand, color))
  /\ UNCHANGED << addresses, pc, reactor, cars, addr_count, callbacks, called,
                  factory_deferred, conn, data, wire, reason, proto_cars,
                  sent_cars, stops, raised, delivered, outcome >>

\* The events of connection attempt i, as the reactors dispatch them.
SessionStep(i) ==
  \/ connectionMade(i)
  \/ \E k \in 1..Len(wire[i]) : dataReceived(i, k)
  \/ \E r \in Reasons : connectionLost(i, r)
  \/ clientConnectionFailed(i)

Next ==
  \/ update_cars
  \/ reactor_run
  \/ WatchCars_run
  \/ \E i \in Sessions : connectionMade(i)
  \/ \E i \in Sessions : \E k \in 1..Len(wire[i]) : dataReceived(i, k)
  \/ \E i \in Sessions : \E r \in Reasons : connectionLost(i, r)
  \/ \E i \in Sessions : clientConnectionFailed(i)

Spec == Init /\ [][Next]_vars

\* main() runs to reactor.run(), and the reactor dispatches every event of a
\* connection that stays pending: the server closes each connection right
\* after its one write, so every attempt ends in a close, a loss or a
\* connect failure.
FairSpec ==
  /\ Spec
  /\ WF_vars(update_cars)
  /\ WF_vars(reactor_run)
  /\ \A i \in 1..MaxAddr : WF_vars(i \in Sessions /\ SessionStep(i))

\* ------------------------------------------------------- vocabulary of claims

\* Connection attempt i has reached its terminal outcome.
Terminal(i) == conn[i] \in { "closed", "failed" }

\* Connection i ended with the server's orderly close, everything received.
Succeeded(i) == conn[i] = "closed" /\ reason[i] = "ConnectionDone"

\* Connection i was established and then lost before the orderly close.
Aborted(i) == conn[i] = "closed" /\ reason[i] = "ConnectionLost"

\* Completion has been signalled: cars_done stopped the reactor.
Complete == reactor = "stopped"

\* The records WatchCars formats from delimiter-free fields.
CleanRecords ==
  { Format(t, brand, color) :
      t \in { f \in Times : CleanField(f) }, brand \in Brands, color \in Colors }

WellFormed(list) == \A k \in 1..Len(list) : list[k] \in CleanRecords

\* Number of ':' separated fields of a chunk.
Colons(chunk) == Cardinality({ k \in 1..Len(chunk) : chunk[k] = ":" })
Malformed(chunk) == chunk # <<>> /\ Colons(chunk) # 2

\* A list as a multiset.
SeqBag(list) ==
  [ x \in { list[k] : k \in 1..Len(list) } |->
      Cardinality({ k \in 1..Len(list) : list[k] = x }) ]

\* The multiset of the records the server sent on those of the connections
\* 1..n that succeeded.
RECURSIVE SentBag(_)
SentBag(n) ==
  IF n = 0 THEN EmptyBag
  ELSE SentBag(n - 1) (+) (IF Succeeded(n) THEN SeqBag(sent_cars[n]) ELSE EmptyBag)

\* ------------------------------------------------------------------ claims

\* C1: completion is signalled only in a state where every session launched
\* by update_cars has reached its terminal outcome.
C1_CompleteOnlyWhenAllResolved ==
  Complete => \A i \in Sessions : Terminal(i)

\* C2: N >= 1 addresses, all N servers respond successfully (here: each with
\* at least one record): once the cycle is complete and every session has
\* closed, the car list is the multiset union of the records sent by all N
\* servers and the resolved count is N.
C2_AllSucceedUnion ==
  ( /\ Len(addresses) >= 1
    /\ Complete
    /\ \A i \in Sessions : Succeeded(i) /\ sent_cars[i] # <<>> /\ WellFormed(sent_cars[i]) )
  => /\ SeqBag(cars) = SentBag(Len(addresses))
     /\ addr_count = Len(addresses)

\* C3: M sessions fail at connect and N-M succeed (here: M >= 1, each success
\* with at least one record): once complete and all resolved, the car list
\* holds the records of exactly the N-M successful sessions.
C3_PartialFailureRecords ==
  ( /\ Complete
    /\ \E i \in Sessions : conn[i] = "failed"
    /\ \A i \in Sessions :
         \/ conn[i] = "failed"
         \/ Succeeded(i) /\ sent_cars[i] # <<>> /\ WellFormed(sent_cars[i]) )
  => SeqBag(cars) = SentBag(Len(addresses))

\* C5: with an empty address list the cycle is complete as soon as
\* update_cars has returned, with an empty car list.
C5_EmptyCompletesImmediately ==
  (Len(addresses) = 0 /\ pc # "main") => (Complete /\ cars = <<>>)

\* C6: every session that has reached a terminal event has had its outcome
\* delivered to the aggregator's callbacks exactly once.
C6_DeliveredExactlyOnce ==
  \A i \in Sessions : Terminal(i) => delivered[i] = 1

\* C7: an established connection lost before the server's orderly close,
\* with some bytes already buffered, yields a failure outcome, and with one
\* address the car list stays empty.
C7_AbortIsFailure ==
  \A i \in Sessions :
    (Aborted(i) /\ data[i] # <<>>) =>
       /\ outcome[i] # "callback"
       /\ Len(addresses) = 1 => cars = <<>>

\* C4: with N >= 1 addresses, when every session step that can happen
\* eventually happens, the reactor is eventually stopped.
C4_EventuallyComplete ==
  (Len(addresses) >= 1) ~> Complete

\* C4, its case: a cycle of N >= 1 sessions, all resolved, at least one by a
\* connect failure, is complete.
C4_Witness ==
  /\ Len(addresses) >= 1
  /\ \A i \in Sessions : Terminal(i)
  /\ \E i \in Sessions : conn[i] = "failed"
  /\ Complete

\* C4, the finite part of the argument: in a cycle of N >= 1 sessions the
\* reactor is stopped as soon as one session has resolved, hence once all
\* have.
C4_ResolvedImpliesComplete ==
  (Len(addresses) >= 1 /\ \E i \in Sessions : Terminal(i)) => Complete

\* C4, the other part: an unresolved session of a running client always has
\* an event that can be dispatched.
C4_UnresolvedCanStep ==
  \A i \in Sessions : (pc = "running" /\ ~Terminal(i)) => ENABLED SessionStep(i)

\* C8: a session that closes in order with a payload holding a non-empty
\* chunk that is not three ':' separated fields ends in a failure: its
\* outcome goes to the errback and, with one address, no chunk reaches the
\* car list.
C8_MalformedIsFailure ==
  \A i \in Sessions :
    (Succeeded(i) /\ \E k \in 1..Len(proto_cars[i]) : Malformed(proto_cars[i][k])) =>
       /\ outcome[i] = "errback"
       /\ Len(addresses) = 1 => cars = <<>>

C10_RoundTrip ==
  \A i \in Sessions :
    (Succeeded(i) /\ WellFormed(sent_cars[i])) => proto_cars[i] = sent_cars[i]

\* C11: a session whose server closes after sending zero bytes decodes no
\* record and, delivered as a success, adds no element to the car list.
C11_EmptyPayloadNoRecords ==
  \A i \in Sessions :
    (Succeeded(i) /\ data[i] = <<>>) =>
       /\ proto_cars[i] = <<>>
       /\ outcome[i] = "callback" => cars = <<>>

\* C12: in a cycle of N >= 1 addresses reactor.stop() is called at most
\* once, a call takes the cycle from incomplete to complete, and a complete
\* cycle stays complete.
C12_CompleteOnce ==
  [][ Len(addresses) >= 1 =>
        /\ stops' <= 1
        /\ stops' # stops => (~Complete /\ Complete')
        /\ Complete => Complete' ]_vars

\* C12, its case: a cycle of two sessions, both resolved, completed by one
\* call of reactor.stop().
C12_Witness ==
  /\ Len(addresses) >= 2
  /\ \A i \in Sessions : Terminal(i)
  /\ Complete
  /\ stops = 1

\* C13: no callback of the aggregator raises while session outcomes are
\* processed.
C13_NoCallbackRaises ==
  raised = 0

\* C14: the resolved counter equals the number of sessions that have reached
\* a terminal outcome.
C14_CountEqualsResolved ==
  addr_count = Cardinality({ i \in Sessions : Terminal(i) })

\* C15: update_cars initiates one connection attempt per entry of the
\* address list, duplicates included; no attempt is initiated by any other
\* step; and every attempt has been initiated when a callback of the
\* aggregator processes an outcome.
C15_FanOut ==
  [][ /\ (pc = "main" /\ pc' # "main") =>
           \A i \in Sessions : conn[i] = "idle" /\ conn'[i] = "connecting"
      /\ \A i \in Sessions :
           (conn'[i] = "connecting" /\ conn[i] # "connecting") => pc = "main"
      /\ (delivered' # delivered \/ cars' # cars \/ addr_count' # addr_count) =>
           \A i \in Sessions : conn[i] # "idle" ]_vars

\* C15, its case: two entries for the same (host, port), both attempted, and
\* an outcome processed.
C15_Witness ==
  /\ Len(addresses) = 2
  /\ addresses[1] = addresses[2]
  /\ \A i \in Sessions : conn[i] # "idle"
  /\ called

C17_CountBounds ==
  /\ addr_count = 0
  /\ [][ /\ addr_count' >= addr_count
         /\ 0 <= addr_count' /\ addr_count' <= Len(addresses') ]_vars

\* C17, its case: the counter has reached len(addresses) >= 2.
C17_Witness ==
  Len(addresses) >= 2 /\ addr_count = Len(addresses)

IsPrefix(a, b) == Len(a) <= Len(b) /\ SubSeq(b, 1, Len(a)) = a

\* Where record k starts in the '.'-joined encoding of list, less one.
RECURSIVE Offset(_, _)
Offset(list, k) == IF k = 1 THEN 0 ELSE Offset(list, k - 1) + Len(list[k - 1]) + 1

\* payload is the records of list in order, with one '.' between neighbours.
IsJoined(payload, list) ==
  IF list = <<>> THEN payload = <<>>
  ELSE /\ Len(payload) = Offset(list, Len(list)) + Len(list[Len(list)])
       /\ \A k \in 1..Len(list) :
            /\ SubSeq(payload, Offset(list, k) + 1, Offset(list, k) + Len(list[k])) = list[k]
            /\ k > 1 => payload[Offset(list, k)] = "."

C19_LaterEventsInert ==
  [][ (~factory_deferred /\ \E i \in Sessions : ~Terminal(i) /\ conn'[i] \in { "closed", "failed" }) =>
        /\ cars' = cars
        /\ addr_count' = addr_count
        /\ reactor' = reactor /\ stops' = stops
        /\ delivered' = delivered /\ outcome' = outcome ]_vars

\* C19, its case: one session fired the deferred, another ended in a close
\* after that and delivered nothing.
C19_Witness ==
  /\ ~factory_deferred
  /\ \E i, j \in Sessions :
       /\ delivered[i] = 1
       /\ conn[j] = "closed" /\ delivered[j] = 0

====
